---- MODULE Spec2Model ----
(***************************************************************************)
(* A model of gumble's Client (src/gumble/client.go): the connection state *)
(* machine, the read and keep-alive goroutines, the close path and Send.   *)
(* Every goroutine is a process with a program counter; one action is one  *)
(* step between two accesses to the Client's shared fields. The Client's   *)
(* fields are not guarded by a lock (closeMutex covers close only,         *)
(* sendMutex covers Send only), so every store of Connect and of close is  *)
(* a step of its own that the other goroutines can see.                    *)
(***************************************************************************)
EXTENDS Integers, Sequences, FiniteSets, TLC

(* ------------------------------ bounds --------------------------------- *)
\* host goroutines calling the Client's methods
NumHosts == 2
\* successful TLS dials in one run
MaxConnects == 2
\* One run follows one of four workloads. In the session workload the host
\* goroutines are active around a single connection:
\*   method calls the host goroutines make
SessionCalls == 3
\*   packets the server delivers
SessionPackets == 1
\* In the traffic workload the keep-alive goroutine, audio and network
\* failures are active on a single connection:
\*   method calls the host goroutines make
TrafficCalls == 2
\*   packets the server delivers
TrafficPackets == 1
\*   ticks of the keep-alive ticker
TrafficPings == 1
\*   audio packets sent (cap of the audio sequence counter)
TrafficSeq == 1
\*   writes the network fails while the connection is still open
TrafficFaults == 1
\* In the reconnect workload one host goroutine connects again after a
\* disconnect:
\*   method calls the host goroutine makes
ReconnectCalls == 3
\*   packets the server delivers
ReconnectPackets == 1
\* In the race workload two host goroutines call Connect at once and both
\* dials may succeed:
\*   method calls the host goroutines make
RaceCalls == 2
\*   packets the server sends, each with an oversize header
RacePackets == 1

(* ------------------------- program constants --------------------------- *)
StateDisconnected == 0
StateConnected == 1
StateSynced == 2
maximumPacketSize == 1024 * 1024 * 10
\* make([]byte, 1024) in readRoutine
initialCap == 1024

\* type ids of the dispatcher's table that the model delivers
ServerSyncId == 5
UserStateId == 9
TextMessageId == 11
\* an id outside the assigned range 0..25
UnknownId == 26
handlers == {ServerSyncId, UserStateId, TextMessageId}
\* headers <<type id, length>> the server may send
PacketHeaders ==
  {<<t, 4>> : t \in handlers \cup {UnknownId}}
    \cup {<<TextMessageId, maximumPacketSize>>, <<TextMessageId, maximumPacketSize + 1>>}
\* the session id the server assigns to the local user
SelfSession == 7
\* voice targets the host may set
VoiceTargets == {1}

(* ------------------------------ workloads ------------------------------ *)
\* the headers the server sends in the race workload
OversizeHeaders == {<<TextMessageId, maximumPacketSize + 1>>}

SessionLimits ==
  [hosts |-> NumHosts, connects |-> 1, calls |-> SessionCalls, packets |-> SessionPackets,
   pings |-> 0, seq |-> 0, faults |-> 0, headers |-> PacketHeaders]
TrafficLimits ==
  [hosts |-> NumHosts, connects |-> 1, calls |-> TrafficCalls, packets |-> TrafficPackets,
   pings |-> TrafficPings, seq |-> TrafficSeq, faults |-> TrafficFaults,
   headers |-> PacketHeaders]
ReconnectLimits ==
  [hosts |-> 1, connects |-> MaxConnects, calls |-> ReconnectCalls,
   packets |-> ReconnectPackets, pings |-> 0, seq |-> 0, faults |-> 0,
   headers |-> PacketHeaders]
RaceLimits ==
  [hosts |-> NumHosts, connects |-> MaxConnects, calls |-> RaceCalls,
   packets |-> RacePackets, pings |-> 0, seq |-> 0, faults |-> 0,
   headers |-> OversizeHeaders]

(* ------------------------------ processes ------------------------------ *)
Host(i) == <<"host", i>>
Reader(k) == <<"read", k>>
Pinger(k) == <<"ping", k>>
Hosts == {Host(i) : i \in 1..NumHosts}
Conns == 1..MaxConnects
Readers == {Reader(k) : k \in Conns}
Pingers == {Pinger(k) : k \in Conns}
Procs == Hosts \cup Readers \cup Pingers
Free == <<"free", 0>>

VARIABLES
  state,           \* c.state
  self,            \* c.self: 0 is nil, else a session id
  connection,      \* c.connection: 0 is nil, else the id of a dialled connection
  users,           \* c.users: [isNil, ids]
  channels,        \* c.channels
  contextActions,  \* c.contextActions
  audioEncoder,    \* c.audioEncoder: FALSE is nil
  audioSequence,   \* c.audioSequence
  audioTarget,     \* c.audioTarget: 0 is nil
  end,             \* c.end: 0 is the nil channel, else the channel made by the k-th Connect
  closeMutex,      \* holder of c.closeMutex
  sendMutex,       \* holder of c.sendMutex
  proc,            \* every goroutine's program counter and locals
  closed,          \* per dialled connection: Close() has been called on it
  broken,          \* per dialled connection: a write on it has failed
  wire,            \* per dialled connection: the chunks written to it, in order
  sent,            \* per dialled connection: the frames of the Sends that returned nil, in order
  events,          \* the events delivered to config.Listener, in order
  dialled,         \* number of successful dials so far
  faults,          \* number of writes the network has failed so far
  limits,          \* the workload of this run
  crashed,         \* an unrecovered panic has ended the program
  chParent,        \* Channel.parent of every channel: 0 is nil (the root)
  chName,          \* Channel.name of every channel
  findReceiver,    \* the channel Find is called on
  findNames,       \* the names Find is called with
  findDone,        \* Find has returned
  findResult,      \* the channel Find returned: 0 is nil
  deviceSource,    \* Stream.deviceSource: FALSE is nil
  sourceFrameSize, \* Stream.sourceFrameSize
  frameSize,       \* client.Config.AudioFrameSize()
  sourceStop,      \* Stream.sourceStop: 0 is nil, else the channel made by the k-th start
  stopClosed,      \* the stop channels that have been closed
  routine,         \* the source goroutines: position, local stop, ticks taken
  caller,          \* the goroutine calling the Stream's methods: position and calls made
  streamResult     \* result of the last call of StartSource or StopSource

\* the channel tree and a call of Channel.Find
findVars == <<chParent, chName, findReceiver, findNames, findDone, findResult>>
\* a gumbleopenal.Stream, its caller and its source goroutines
streamVars == <<deviceSource, sourceFrameSize, frameSize, sourceStop, stopClosed, routine,
                caller, streamResult>>
\* the state outside the Client
outside == <<findVars, streamVars>>

\* the Client, its goroutines and its network
inside == <<state, self, connection, users, channels, contextActions, audioEncoder,
            audioSequence, audioTarget, end, closeMutex, sendMutex, proc, closed,
            broken, wire, sent, events, dialled, faults, limits, crashed>>

vars == <<inside, outside>>

client == <<state, self, connection, users, channels, contextActions, audioEncoder,
            audioSequence, audioTarget, end>>
world == <<users, channels, contextActions, self>>
net == <<closed, broken, wire, sent, dialled, faults, limits>>

NilMap == [isNil |-> TRUE, ids |-> {}]
EmptyMap == [isNil |-> FALSE, ids |-> {}]

Locals(start) ==
  [pc |-> start, ret |-> "none", op |-> "none", result |-> "none",
   message |-> "none", event |-> "none", ch |-> 0,
   conn |-> 0, closing |-> 0, pType |-> 0, pLength |-> 0, capData |-> 0,
   n |-> 0, panicking |-> FALSE, outer |-> "none", target |-> 0, sequence |-> 0,
   later |-> FALSE]

\* no channel tree: the Client is not connected and Find is not called
NoFind ==
  /\ chParent = <<>>
  /\ chName = <<>>
  /\ findReceiver = 0
  /\ findNames = <<>>
  /\ findDone = FALSE
  /\ findResult = 0

\* client.go:84-93: a new Client, and nothing dialled yet
NewClient ==
  /\ state = StateDisconnected
  /\ self = 0
  /\ connection = 0
  /\ users = NilMap
  /\ channels = NilMap
  /\ contextActions = NilMap
  /\ audioEncoder = FALSE
  /\ audioSequence = 0
  /\ audioTarget = 0
  /\ end = 0
  /\ closeMutex = Free
  /\ sendMutex = Free
  /\ proc = [p \in Procs |-> IF p \in Hosts THEN Locals("idle") ELSE Locals("off")]
  /\ closed = [k \in Conns |-> FALSE]
  /\ broken = [k \in Conns |-> FALSE]
  /\ wire = [k \in Conns |-> <<>>]
  /\ sent = [k \in Conns |-> <<>>]
  /\ events = <<>>
  /\ dialled = 0
  /\ faults = 0
  /\ crashed = FALSE

\* no Stream has been made
NoStream ==
  /\ deviceSource = FALSE
  /\ sourceFrameSize = 0
  /\ frameSize = 0
  /\ sourceStop = 0
  /\ stopClosed = {}
  /\ routine = <<>>
  /\ caller = <<>>
  /\ streamResult = "none"

Init ==
  /\ NewClient
  /\ limits \in {SessionLimits, TrafficLimits, ReconnectLimits, RaceLimits}
  /\ NoFind
  /\ NoStream

\* goroutine p is at the step pc of its code, and the program is running
At(p, pc) == ~crashed /\ proc[p].pc = pc

\* number of method calls host goroutines 1..i have begun
RECURSIVE CallsOf(_)
CallsOf(i) == IF i = 0 THEN 0 ELSE proc[Host(i)].n + CallsOf(i - 1)
calls == CallsOf(NumHosts)

\* host goroutine i may begin a call. The host goroutines run the same code,
\* so they are numbered in the order of their first calls.
Call(h) ==
  /\ At(h, "idle")
  /\ h[2] <= limits.hosts
  /\ calls < limits.calls
  /\ h[2] > 1 => proc[Host(h[2] - 1)].n > 0

Begin(h, op) == [proc[h] EXCEPT !.op = op, !.n = @ + 1, !.result = "pending"]

\* connection k has been closed and the close that closed it has returned
\* (a close whose listener has called Disconnect() again has not)
SessionClosed(k) ==
  /\ closed[k]
  /\ \A p \in Procs : proc[p].closing # k

\* the host goroutine h begins the call Connect(): the audio target and the
\* audio sequence of that moment are kept to compare with when it returns,
\* and whether a session of this Client has already been closed
BeginConnect(h) ==
  [Begin(h, "Connect") EXCEPT !.target = audioTarget, !.sequence = audioSequence,
                              !.later = \E k \in Conns : SessionClosed(k)]

\* a call of Connect() returns err
EndConnect(rec, err) ==
  [rec EXCEPT !.pc = "idle", !.result = err, !.target = 0, !.sequence = 0,
              !.later = FALSE]

\* a call of Send(message) by p that continues at ret
StartSend(rec, message, ret) ==
  [rec EXCEPT !.pc = "send_lock", !.message = message, !.ret = ret]

\* a call of close(event) by p that continues at ret
StartClose(rec, event, ret) ==
  [rec EXCEPT !.pc = "close_lock", !.event = event, !.ret = ret]

\* the label that follows at in the sequence steps, last after the final one
After(steps, at, last) ==
  LET i == CHOOSE j \in 1..Len(steps) : steps[j] = at IN
  IF i = Len(steps) THEN last ELSE steps[i + 1]

\* the labels of the sequence steps
Labels(steps) == {steps[i] : i \in 1..Len(steps)}

(* ------------------------------ Connect -------------------------------- *)
\* the check compares with the wrong state, so Synced passes
ConnectStateOkNotConnected == state # StateConnected

\* client.go:97
ConnectStateOk == state = StateDisconnected

\* client.go:96-99: the call and the check of the state
Connect(h) ==
  /\ Call(h)
  /\ LET rec == BeginConnect(h) IN
       proc' = [proc EXCEPT ![h] = IF ConnectStateOk
                                      THEN [rec EXCEPT !.pc = "connect_encoder"]
                                      ELSE EndConnect(rec, "ErrState")]
  /\ UNCHANGED <<client, closeMutex, sendMutex, net, events, crashed>>
  /\ UNCHANGED outside

\* client.go:100-104: gopus.NewEncoder fails and Connect returns its error,
\* or the new encoder is stored
ConnectEncoder(h) ==
  /\ At(h, "connect_encoder")
  /\ \/ /\ proc' = [proc EXCEPT ![h] = EndConnect(@, "ErrEncoder")]
        /\ UNCHANGED audioEncoder
     \/ /\ audioEncoder' = TRUE
        /\ proc' = [proc EXCEPT ![h].pc = "connect_sequence"]
  /\ UNCHANGED <<state, self, connection, users, channels, contextActions, audioSequence,
                 audioTarget, end, closeMutex, sendMutex, net, events, crashed>>
  /\ UNCHANGED outside

\* client.go:105: c.audioSequence = 0
ConnectSequence(h) ==
  /\ At(h, "connect_sequence")
  /\ audioSequence' = 0
  /\ proc' = [proc EXCEPT ![h].pc = "connect_target"]
  /\ UNCHANGED <<state, self, connection, users, channels, contextActions, audioEncoder,
                 audioTarget, end, closeMutex, sendMutex, net, events, crashed>>
  /\ UNCHANGED outside

\* client.go:106: c.audioTarget = nil
ConnectTarget(h) ==
  /\ At(h, "connect_target")
  /\ audioTarget' = 0
  /\ proc' = [proc EXCEPT ![h].pc = "connect_dial"]
  /\ UNCHANGED <<state, self, connection, users, channels, contextActions, audioEncoder,
                 audioSequence, end, closeMutex, sendMutex, net, events, crashed>>
  /\ UNCHANGED outside

\* client.go:108-113: the dial returns. A failed dial drops the encoder and
\* returns the error; a successful one is stored in c.connection.
ConnectDial(h) ==
  /\ At(h, "connect_dial")
  /\ \/ /\ audioEncoder' = FALSE
        /\ proc' = [proc EXCEPT ![h] = EndConnect(@, "ErrDial")]
        /\ UNCHANGED <<connection, dialled>>
     \/ /\ dialled < limits.connects
        /\ dialled' = dialled + 1
        /\ connection' = dialled + 1
        /\ proc' = [proc EXCEPT ![h] = [@ EXCEPT !.pc = "connect_users", !.conn = dialled + 1]]
        /\ UNCHANGED audioEncoder
  /\ UNCHANGED <<state, self, users, channels, contextActions, audioSequence, audioTarget,
                 end, closeMutex, sendMutex, closed, broken, wire, sent, faults, limits,
                 events, crashed>>
  /\ UNCHANGED outside

\* client.go:114-117, one statement a step
ConnectSteps == <<"connect_users", "connect_channels", "connect_actions", "connect_state">>

\* client.go:114-117: the store made at the step at
ConnectStore(at) ==
  /\ users' = IF at = "connect_users" THEN EmptyMap ELSE users
  /\ channels' = IF at = "connect_channels" THEN EmptyMap ELSE channels
  /\ contextActions' = IF at = "connect_actions" THEN EmptyMap ELSE contextActions
  /\ state' = IF at = "connect_state" THEN StateConnected ELSE state

\* client.go:114-117: the empty world model and the new state
ConnectReset(h) ==
  /\ ~crashed
  /\ proc[h].pc \in Labels(ConnectSteps)
  /\ ConnectStore(proc[h].pc)
  /\ proc' = [proc EXCEPT ![h] = [@ EXCEPT !.pc = After(ConnectSteps, proc[h].pc, "connect_go")]]
  /\ UNCHANGED <<self, connection, audioEncoder, audioSequence, audioTarget, end,
                 closeMutex, sendMutex, net, events, crashed>>
  /\ UNCHANGED outside

\* client.go:120-144: make the end channel, start both goroutines, call
\* Send(version)
ConnectGo(h) ==
  /\ At(h, "connect_go")
  /\ LET k == proc[h].conn IN
       /\ end' = k
       /\ proc' = [proc EXCEPT ![h] = StartSend(@, "Version", "connect_auth"),
                               ![Reader(k)] = Locals("start"),
                               ![Pinger(k)] = Locals("start")]
  /\ UNCHANGED <<state, self, connection, users, channels, contextActions, audioEncoder,
                 audioSequence, audioTarget, closeMutex, sendMutex, net, events, crashed>>
  /\ UNCHANGED outside

(* -------------------------------- Send --------------------------------- *)
\* Send does not take the lock
SendLockFreeAlways == TRUE

\* client.go:305: sendMutex.Lock() can return
SendLockFree == sendMutex = Free

\* a write on connection c cannot succeed
WriteFails(c) == closed[c] \/ broken[c]

\* a write on connection c fails: on an open connection the network has failed
\* it, and every later write on c fails too
WriteFailure(c) ==
  IF WriteFails(c)
    THEN UNCHANGED <<broken, faults>>
    ELSE broken' = [broken EXCEPT ![c] = TRUE] /\ faults' = faults + 1

\* the frame of the n-th call (or tick) of p
Frame(rec, p) == [by |-> p, n |-> rec.n, kind |-> rec.message]

\* what the caller of Send does with its result err; pingRoutine comes back
\* to the top of its loop (client.go:159)
AfterSend(rec, err) ==
  LET r == [rec EXCEPT !.message = "none", !.conn = 0, !.ret = "none"] IN
  CASE rec.ret = "host_send" -> [r EXCEPT !.pc = "idle", !.result = err]
    [] rec.ret = "connect_auth" -> StartSend(r, "Authenticate", "connect_return")
    [] rec.ret = "connect_return" -> EndConnect(r, "nil")
    [] rec.ret = "ping" -> [r EXCEPT !.pc = "start"]

\* client.go:305-308 for the goroutine p with locals rec: take sendMutex, read
\* c.connection and hand it to message.writeTo as its writer; Send makes no
\* check of it. writeTo encodes (an audio packet takes the next sequence
\* number) and writes the 6-byte header. A nil c.connection reaches writeTo as
\* a writer that holds a nil *tls.Conn, and the write through it is a nil
\* pointer dereference: the goroutine panics and the program ends. A failed
\* write returns at once (client.go:309) and unlocks.
SendHeader(p, rec) ==
  /\ SendLockFree
  /\ LET c == connection IN
       IF c = 0
         THEN /\ crashed' = TRUE
              /\ proc' = [proc EXCEPT ![p] = [rec EXCEPT !.pc = "panic"]]
              /\ UNCHANGED <<audioSequence, broken, faults, wire, sendMutex>>
         ELSE /\ audioSequence' = IF rec.message = "Audio" THEN audioSequence + 1
                                                            ELSE audioSequence
              /\ UNCHANGED crashed
              /\ \/ /\ ~WriteFails(c)
                    /\ wire' = [wire EXCEPT ![c] = Append(@, <<Frame(rec, p), "header">>)]
                    /\ proc' = [proc EXCEPT ![p] = [rec EXCEPT !.pc = "send_body", !.conn = c]]
                    /\ sendMutex' = p
                    /\ UNCHANGED <<broken, faults>>
                 \/ /\ WriteFails(c) \/ faults < limits.faults
                    /\ WriteFailure(c)
                    /\ proc' = [proc EXCEPT ![p] = AfterSend(rec, "ErrIO")]
                    /\ UNCHANGED <<wire, sendMutex>>
  /\ UNCHANGED <<state, self, connection, users, channels, contextActions, audioEncoder,
                 audioTarget, end, closeMutex, closed, sent, events, dialled, limits>>
  /\ UNCHANGED outside

\* client.go:305-308: a goroutine that has called Send takes the lock
SendLock(p) ==
  /\ At(p, "send_lock")
  /\ SendHeader(p, proc[p])

\* client.go:306-311: writeTo writes the payload; Send returns and unlocks
SendBody(p) ==
  /\ At(p, "send_body")
  /\ sendMutex' = Free
  /\ LET c == proc[p].conn IN
       \/ /\ ~WriteFails(c)
          /\ wire' = [wire EXCEPT ![c] = Append(@, <<Frame(proc[p], p), "body">>)]
          /\ sent' = [sent EXCEPT ![c] = Append(@, Frame(proc[p], p))]
          /\ proc' = [proc EXCEPT ![p] = AfterSend(@, "nil")]
          /\ UNCHANGED <<broken, faults>>
       \/ /\ WriteFails(c) \/ faults < limits.faults
          /\ WriteFailure(c)
          /\ proc' = [proc EXCEPT ![p] = AfterSend(@, "ErrIO")]
          /\ UNCHANGED <<wire, sent>>
  /\ UNCHANGED <<client, closeMutex, closed, events, dialled, limits, crashed>>
  /\ UNCHANGED outside

\* client.go:304: a host goroutine calls Send with a text message or an audio buffer
Send(h) ==
  /\ Call(h)
  /\ \E kind \in {"TextMessage", "Audio"} :
       /\ kind = "Audio" => audioSequence < limits.seq
       /\ proc' = [proc EXCEPT ![h] = StartSend(Begin(h, "Send"), kind, "host_send")]
  /\ UNCHANGED <<client, closeMutex, sendMutex, net, events, crashed>>
  /\ UNCHANGED outside

\* client.go:299-301
SetVoiceTarget(h) ==
  /\ Call(h)
  /\ \E target \in VoiceTargets : audioTarget' = target
  /\ proc' = [proc EXCEPT ![h] = [Begin(h, "SetVoiceTarget") EXCEPT !.result = "nil"]]
  /\ UNCHANGED <<state, self, connection, users, channels, contextActions, audioEncoder,
                 audioSequence, end, closeMutex, sendMutex, net, events, crashed>>
  /\ UNCHANGED outside

(* -------------------------------- close -------------------------------- *)
\* an event handed to config.Listener, with the connection it is about
Event(ev, type, c) == [ev |-> ev, type |-> type, conn |-> c]

\* client.go:247-253, one statement a step
CloseSteps ==
  <<"close_connection", "close_state", "close_users", "close_channels", "close_actions",
    "close_self", "close_encoder">>

\* client.go:247-253: the store made at the step at
CloseStore(at) ==
  /\ connection' = IF at = "close_connection" THEN 0 ELSE connection
  /\ state' = IF at = "close_state" THEN StateDisconnected ELSE state
  /\ users' = IF at = "close_users" THEN NilMap ELSE users
  /\ channels' = IF at = "close_channels" THEN NilMap ELSE channels
  /\ contextActions' = IF at = "close_actions" THEN NilMap ELSE contextActions
  /\ self' = IF at = "close_self" THEN 0 ELSE self
  /\ audioEncoder' = IF at = "close_encoder" THEN FALSE ELSE audioEncoder

\* the nil check is missing
ConnectionIsNilDropped == FALSE

\* client.go:242
ConnectionIsNil == connection = 0

\* what the caller of close does with its result
AfterClose(rec, err) ==
  LET r == [rec EXCEPT !.event = "none", !.ret = "none", !.ch = 0, !.closing = 0,
                       !.capData = 0] IN
  CASE rec.ret = "host_disconnect" -> [r EXCEPT !.pc = "idle", !.result = err]
    [] rec.ret = "reader_exit" -> [r EXCEPT !.pc = "done"]
    [] rec.ret = "on_disconnect" ->
         [r EXCEPT !.pc = "close_return", !.ret = rec.outer, !.closing = rec.closing]

\* client.go:231-236
Disconnect(h) ==
  /\ Call(h)
  /\ proc' = [proc EXCEPT ![h] = StartClose(Begin(h, "Disconnect"), "User", "host_disconnect")]
  /\ UNCHANGED <<client, closeMutex, sendMutex, net, events, crashed>>
  /\ UNCHANGED outside

\* client.go:239-245: take closeMutex; with a nil connection return ErrState
\* (the deferred Unlock runs), otherwise evaluate c.end and begin the send on it
CloseEnter(p) ==
  /\ At(p, "close_lock")
  /\ closeMutex = Free
  /\ IF ConnectionIsNil
       THEN /\ proc' = [proc EXCEPT ![p] = AfterClose(@, "ErrState")]
            /\ crashed' = (proc[p].ret = "reader_exit" /\ proc[p].panicking)
            /\ UNCHANGED closeMutex
       ELSE /\ closeMutex' = p
            /\ proc' = [proc EXCEPT ![p] = [@ EXCEPT !.pc = "close_end", !.ch = end]]
            /\ UNCHANGED crashed
  /\ UNCHANGED <<client, sendMutex, net, events>>
  /\ UNCHANGED outside

\* client.go:245 and 161-162: c.end is unbuffered, so the send completes
\* together with the receive of a keep-alive goroutine selecting on that
\* channel, which returns. A send on the nil channel never completes.
CloseSignal(p) ==
  /\ At(p, "close_end")
  /\ proc[p].ch # 0
  /\ \E q \in Pingers :
       /\ proc[q].pc = "wait"
       /\ proc[q].ch = proc[p].ch
       /\ proc' = [proc EXCEPT ![p] = [@ EXCEPT !.pc = "close_conn", !.ch = 0],
                               ![q] = [@ EXCEPT !.pc = "done", !.ch = 0]]
  /\ UNCHANGED <<client, closeMutex, sendMutex, net, events, crashed>>
  /\ UNCHANGED outside

\* client.go:246: c.connection.Close() on the connection c.connection holds now
CloseConnection(p) ==
  /\ At(p, "close_conn")
  /\ closed' = [closed EXCEPT ![connection] = TRUE]
  /\ proc' = [proc EXCEPT ![p] = [@ EXCEPT !.pc = "close_connection", !.closing = connection]]
  /\ UNCHANGED <<client, closeMutex, sendMutex, broken, wire, sent, events, dialled,
                 faults, limits, crashed>>
  /\ UNCHANGED outside

\* client.go:247-253: the fields are reset one after the other
CloseReset(p) ==
  /\ ~crashed
  /\ proc[p].pc \in Labels(CloseSteps)
  /\ CloseStore(proc[p].pc)
  /\ proc' = [proc EXCEPT ![p] = [@ EXCEPT !.pc = After(CloseSteps, proc[p].pc, "close_notify")]]
  /\ UNCHANGED <<audioSequence, audioTarget, end, closeMutex, sendMutex, net, events,
                 crashed>>
  /\ UNCHANGED outside

\* client.go:255-258, 240: the configured listener's OnDisconnect, return nil,
\* the deferred Unlock. The listener is host code: it returns, or it calls
\* Disconnect() (client.go:231-236) on the goroutine that runs close, which
\* still holds closeMutex.
CloseNotify(p) ==
  /\ At(p, "close_notify")
  /\ events' = Append(events, Event("Disconnect", proc[p].event, proc[p].closing))
  /\ \/ /\ closeMutex' = Free
        /\ proc' = [proc EXCEPT ![p] = AfterClose(@, "nil")]
        /\ crashed' = (proc[p].ret = "reader_exit" /\ proc[p].panicking)
     \/ /\ proc' = [proc EXCEPT ![p] =
             StartClose([@ EXCEPT !.outer = proc[p].ret], "User", "on_disconnect")]
        /\ UNCHANGED <<closeMutex, crashed>>
  /\ UNCHANGED <<client, sendMutex, net>>
  /\ UNCHANGED outside

(* -------------------------------- Conn --------------------------------- *)
\* the nil interface value
NilConn == <<"nil", 0>>

\* client.go:263-268: the net.Conn that Conn() returns in this state. The
\* literal nil is returned in state Disconnected only; in any other state the
\* result is an interface holding the *tls.Conn c.connection, and is not nil
\* even when that pointer is.
Conn == IF state = StateDisconnected THEN NilConn ELSE <<"*tls.Conn", connection>>

(* ----------------------------- readRoutine ----------------------------- *)
\* the size check also refuses a length of exactly 10 MiB
TooLargeOrEqual(pLengthInt) == pLengthInt >= maximumPacketSize

\* client.go:192
TooLarge(pLengthInt) == pLengthInt > maximumPacketSize

\* client.go:195-197
Grow(capData, pLengthInt) == IF pLengthInt > capData THEN pLengthInt ELSE capData

\* packets the server has delivered to the read goroutines 1..k
RECURSIVE ReceivedBy(_)
ReceivedBy(k) == IF k = 0 THEN 0 ELSE proc[Reader(k)].n + ReceivedBy(k - 1)
received == ReceivedBy(MaxConnects)

\* a failed read makes readRoutine return: the deferred close(DisconnectError) runs
ReadReturn(rec) ==
  StartClose([rec EXCEPT !.pType = 0, !.pLength = 0], "Error", "reader_exit")

\* client.go:177-178: conn := c.connection; a nil conn makes the first
\* SetReadDeadline (client.go:184) panic, and the deferred close runs
ReadStart(k) ==
  /\ At(Reader(k), "start")
  /\ proc' = [proc EXCEPT ![Reader(k)] =
       IF connection = 0
         THEN ReadReturn([@ EXCEPT !.panicking = TRUE])
         ELSE [@ EXCEPT !.pc = "read", !.conn = connection, !.capData = initialCap]]
  /\ UNCHANGED <<client, closeMutex, sendMutex, net, events, crashed>>
  /\ UNCHANGED outside

\* client.go:184-200: the deadline, the two header reads, the size check, the
\* payload read; any read may fail (a closed connection, EOF, the deadline)
ReadPacket(k) ==
  /\ At(Reader(k), "read")
  /\ \/ proc' = [proc EXCEPT ![Reader(k)] = ReadReturn(@)]
     \/ /\ ~closed[proc[Reader(k)].conn]
        /\ received < limits.packets
        /\ \E hdr \in limits.headers :
             proc' = [proc EXCEPT ![Reader(k)] =
               IF TooLarge(hdr[2])
                 THEN StartClose([@ EXCEPT !.n = @ + 1, !.pLength = hdr[2]], "Error", "reader_exit")
                 ELSE [@ EXCEPT !.pc = "dispatch", !.n = @ + 1,
                                !.pType = hdr[1], !.pLength = hdr[2],
                                !.capData = Grow(@, hdr[2])]]
  /\ UNCHANGED <<client, closeMutex, sendMutex, net, events, crashed>>
  /\ UNCHANGED outside

\* the handler of ServerSync: set self, go to Synced, emit the Connect event
handleServerSync(k) ==
  /\ self' = IF SelfSession \in users.ids THEN SelfSession ELSE 0
  /\ state' = StateSynced
  /\ events' = Append(events, Event("Connect", "none", k))
  /\ UNCHANGED users

\* the handler of UserState: create the user, emit a UserChange event
handleUserState(k) ==
  /\ users' = IF users.isNil THEN users ELSE [users EXCEPT !.ids = @ \cup {SelfSession}]
  /\ events' = Append(events, Event("UserChange", "none", k))
  /\ UNCHANGED <<self, state>>

\* the handler of TextMessage: emit a TextMessage event
handleTextMessage(k) ==
  /\ events' = Append(events, Event("TextMessage", "none", k))
  /\ UNCHANGED <<self, state, users>>

\* every type id is taken to have a handler
HasHandlerAlways(pType) == TRUE

\* client.go:201: handle, ok := handlers[pType]
HasHandler(pType) == pType \in handlers

\* client.go:201-203
Dispatch(k) ==
  /\ At(Reader(k), "dispatch")
  /\ LET pType == proc[Reader(k)].pType
         c == proc[Reader(k)].conn IN
       IF HasHandler(pType)
         THEN CASE pType = ServerSyncId -> handleServerSync(c)
                [] pType = UserStateId -> handleUserState(c)
                [] OTHER -> handleTextMessage(c)
         ELSE UNCHANGED <<self, state, users, events>>
  /\ proc' = [proc EXCEPT ![Reader(k)] = [@ EXCEPT !.pc = "read", !.pType = 0, !.pLength = 0]]
  /\ UNCHANGED <<connection, channels, contextActions, audioEncoder, audioSequence,
                 audioTarget, end, closeMutex, sendMutex, net, crashed>>
  /\ UNCHANGED outside

(* ----------------------------- pingRoutine ----------------------------- *)
\* client.go:151-161: the goroutine, newly started or back from Send, comes
\* to its select, which evaluates c.end
PingSelect(k) ==
  /\ At(Pinger(k), "start")
  /\ proc' = [proc EXCEPT ![Pinger(k)] = [@ EXCEPT !.pc = "wait", !.ch = end]]
  /\ UNCHANGED <<client, closeMutex, sendMutex, net, events, crashed>>
  /\ UNCHANGED outside

\* client.go:163-165: the ticker fires and Send(ping) is called
PingTick(k) ==
  /\ At(Pinger(k), "wait")
  /\ proc[Pinger(k)].n < limits.pings
  /\ proc' = [proc EXCEPT ![Pinger(k)] =
                StartSend([@ EXCEPT !.n = @ + 1, !.ch = 0], "Ping", "ping")]
  /\ UNCHANGED <<client, closeMutex, sendMutex, net, events, crashed>>
  /\ UNCHANGED outside

(* ------------------------------------------------------------------------ *)
Next ==
  \/ \E h \in Hosts : Connect(h)
  \/ \E h \in Hosts : ConnectEncoder(h)
  \/ \E h \in Hosts : ConnectSequence(h)
  \/ \E h \in Hosts : ConnectTarget(h)
  \/ \E h \in Hosts : ConnectDial(h)
  \/ \E h \in Hosts : ConnectReset(h)
  \/ \E h \in Hosts : ConnectGo(h)
  \/ \E h \in Hosts : Disconnect(h)
  \/ \E h \in Hosts : Send(h)
  \/ \E h \in Hosts : SetVoiceTarget(h)
  \/ \E p \in Procs : SendLock(p)
  \/ \E p \in Procs : SendBody(p)
  \/ \E p \in Procs : CloseEnter(p)
  \/ \E p \in Procs : CloseSignal(p)
  \/ \E p \in Procs : CloseConnection(p)
  \/ \E p \in Procs : CloseReset(p)
  \/ \E p \in Procs : CloseNotify(p)
  \/ \E k \in Conns : ReadStart(k)
  \/ \E k \in Conns : ReadPacket(k)
  \/ \E k \in Conns : Dispatch(k)
  \/ \E k \in Conns : PingSelect(k)
  \/ \E k \in Conns : PingTick(k)

Spec == Init /\ [][Next]_vars

\* The Go scheduler runs every runnable goroutine: a goroutine between two
\* statements of Connect or close, or newly started, takes its next step when
\* that step can be taken, and a read returns because it has a deadline
\* (client.go:184). The dial and the writes inside Send have no deadline and
\* may block as long as the peer does not answer or does not read, so nothing
\* is assumed about them. The host is not obliged to make calls, the server
\* not to send packets and the ticker not to fire.
Fairness ==
  /\ \A h \in Hosts : WF_vars(ConnectEncoder(h)) /\ WF_vars(ConnectSequence(h))
  /\ \A h \in Hosts : WF_vars(ConnectTarget(h)) /\ WF_vars(ConnectReset(h))
  /\ \A h \in Hosts : WF_vars(ConnectGo(h))
  /\ \A p \in Procs : WF_vars(CloseEnter(p)) /\ WF_vars(CloseSignal(p))
  /\ \A p \in Procs : WF_vars(CloseConnection(p)) /\ WF_vars(CloseReset(p))
  /\ \A p \in Procs : WF_vars(CloseNotify(p))
  /\ \A k \in Conns : WF_vars(ReadStart(k)) /\ WF_vars(ReadPacket(k)) /\ WF_vars(Dispatch(k))
  /\ \A k \in Conns : WF_vars(PingSelect(k))

LiveSpec == Init /\ [][Next]_vars /\ Fairness

(* ---------------------------- Channel.Find ----------------------------- *)
\* channels of the tree; channel 1 is the root
MaxChannels == 4
\* length of the longest path searched
MaxPath == 2
ChannelIds == 1..MaxChannels
ChannelNames == {"a", "b"}
NilChannel == 0

\* channel.go:13: c.children
children(c) == {d \in ChannelIds : chParent[d] = c}

\* the paths of names of at most n hops
RECURSIVE PathsUpTo(_)
PathsUpTo(n) ==
  IF n = 0 THEN {<<>>}
  ELSE LET shorter == PathsUpTo(n - 1) IN
       shorter \cup {Append(q, x) : q \in {r \in shorter : Len(r) = n - 1}, x \in ChannelNames}

\* channel.go:111-121: the channels a call c.Find(names...) can return. The
\* range over c.children visits the children in an order the code does not
\* control; the first child met that has the name is the only one descended.
RECURSIVE FindResults(_, _)
FindResults(c, names) ==
  IF names = <<>> THEN {c}
  ELSE LET matching == {child \in children(c) : chName[child] = names[1]} IN
       IF matching = {} THEN {NilChannel}
       ELSE UNION {FindResults(child, Tail(names)) : child \in matching}

\* a server's channel tree (every channel but the root has a parent created
\* before it) and the arguments of one call of Find
FindInit ==
  /\ NewClient
  /\ limits = SessionLimits
  /\ chParent \in {f \in [ChannelIds -> 0..MaxChannels] :
                     f[1] = 0 /\ \A d \in ChannelIds \ {1} : f[d] \in 1..(d - 1)}
  /\ chName \in [ChannelIds -> ChannelNames]
  /\ findReceiver \in ChannelIds
  /\ findNames \in PathsUpTo(MaxPath)
  /\ findDone = FALSE
  /\ findResult = NilChannel
  /\ NoStream

\* channel.go:111: one call of Find
Find ==
  /\ ~findDone
  /\ findDone' = TRUE
  /\ findResult' \in FindResults(findReceiver, findNames)
  /\ UNCHANGED <<inside, chParent, chName, findReceiver, findNames, streamVars>>

FindNext == Find

FindSpec == FindInit /\ [][FindNext]_vars

(* ------------------------- gumbleopenal.Stream ------------------------- *)
\* successful StartSource calls in one run
MaxStarts == 3
\* calls of StartSource, StopSource and Destroy in one run
MaxStreamCalls == 5
\* ticks of its ticker that one source goroutine takes
MaxTicks == 1
Routines == 1..MaxStarts
\* the frame sizes the configured audio interval can give
FrameSizes == {1, 2}

\* stream.go:41-58: a new Stream; the capture device may have failed to open.
\* The host may have changed client.Config.AudioInterval since.
StreamInit ==
  /\ NewClient
  /\ limits = SessionLimits
  /\ NoFind
  /\ deviceSource \in BOOLEAN
  /\ sourceFrameSize = 1
  /\ frameSize \in FrameSizes
  /\ sourceStop = 0
  /\ stopClosed = {}
  /\ routine = [k \in Routines |-> [pc |-> "off", stop |-> 0, size |-> 0, ticks |-> 0, pushed |-> 0]]
  /\ caller = [pc |-> "idle", ret |-> "none", n |-> 0]
  /\ streamResult = "none"

\* source goroutines started so far
started == Cardinality({k \in Routines : routine[k].pc # "off"})

\* no goroutine has panicked: the program is running
StreamRunning ==
  /\ caller.pc # "panic"
  /\ \A k \in Routines : routine[k].pc # "panic"

\* the caller's goroutine is at the step pc
CallerAt(pc) == StreamRunning /\ caller.pc = pc

\* the source goroutine k is at the step pc
RoutineAt(k, pc) == StreamRunning /\ routine[k].pc = pc

\* the caller may begin a call
StreamCall == CallerAt("idle") /\ caller.n < MaxStreamCalls

\* stream.go:77-83: the two checks
StartSource ==
  /\ StreamCall
  /\ IF sourceStop # 0
       THEN /\ streamResult' = "ErrState"
            /\ caller' = [caller EXCEPT !.n = @ + 1]
       ELSE IF ~deviceSource
         THEN /\ streamResult' = "ErrMic"
              /\ caller' = [caller EXCEPT !.n = @ + 1]
         ELSE /\ started < MaxStarts
              /\ streamResult' = "pending"
              /\ caller' = [caller EXCEPT !.n = @ + 1, !.pc = "start_capture"]
  /\ UNCHANGED <<inside, findVars, deviceSource, sourceFrameSize, frameSize, sourceStop,
                 stopClosed, routine>>

\* stream.go:84: CaptureStart on s.deviceSource (a nil pointer panics)
StartCapture ==
  /\ CallerAt("start_capture")
  /\ caller' = [caller EXCEPT !.pc = IF deviceSource THEN "start_go" ELSE "panic"]
  /\ UNCHANGED <<inside, findVars, deviceSource, sourceFrameSize, frameSize, sourceStop,
                 stopClosed, routine, streamResult>>

\* stream.go:85-88: the new stop channel is stored, the goroutine started and
\* nil returned
StartGo ==
  /\ CallerAt("start_go")
  /\ sourceStop' = started + 1
  /\ routine' = [routine EXCEPT ![started + 1].pc = "start"]
  /\ streamResult' = "nil"
  /\ caller' = [caller EXCEPT !.pc = "idle"]
  /\ UNCHANGED <<inside, findVars, deviceSource, sourceFrameSize, frameSize, stopClosed>>

\* stream.go:91-94: the check of the device
StopSource ==
  /\ StreamCall
  /\ IF ~deviceSource
       THEN /\ streamResult' = "ErrMic"
            /\ caller' = [caller EXCEPT !.n = @ + 1]
       ELSE /\ streamResult' = "pending"
            /\ caller' = [caller EXCEPT !.n = @ + 1, !.pc = "stop_capture", !.ret = "idle"]
  /\ UNCHANGED <<inside, findVars, deviceSource, sourceFrameSize, frameSize, sourceStop,
                 stopClosed, routine>>

\* stream.go:95: CaptureStop on s.deviceSource (a nil pointer panics)
StopCapture ==
  /\ CallerAt("stop_capture")
  /\ caller' = [caller EXCEPT !.pc = IF deviceSource THEN "stop_close" ELSE "panic"]
  /\ UNCHANGED <<inside, findVars, deviceSource, sourceFrameSize, frameSize, sourceStop,
                 stopClosed, routine, streamResult>>

\* stream.go:96-99: with no stop channel StopSource returns ErrState, else
\* the channel is closed. The result goes to the host, or is dropped by
\* Destroy (stream.go:64).
StopClose ==
  /\ CallerAt("stop_close")
  /\ IF sourceStop = 0
       THEN /\ caller' = [caller EXCEPT !.pc = caller.ret, !.ret = "none"]
            /\ streamResult' = IF caller.ret = "idle" THEN "ErrState" ELSE streamResult
            /\ UNCHANGED stopClosed
       ELSE /\ stopClosed' = stopClosed \cup {sourceStop}
            /\ caller' = [caller EXCEPT !.pc = "stop_store"]
            /\ UNCHANGED streamResult
  /\ UNCHANGED <<inside, findVars, deviceSource, sourceFrameSize, frameSize, sourceStop,
                 routine>>

\* stream.go:100-101: s.sourceStop = nil, StopSource returns nil
StopStore ==
  /\ CallerAt("stop_store")
  /\ sourceStop' = 0
  /\ streamResult' = IF caller.ret = "idle" THEN "nil" ELSE streamResult
  /\ caller' = [caller EXCEPT !.pc = caller.ret, !.ret = "none"]
  /\ UNCHANGED <<inside, findVars, deviceSource, sourceFrameSize, frameSize, stopClosed,
                 routine>>

\* stream.go:60-62: Destroy detaches and reads s.deviceSource; with no device
\* only the sink is torn down (stream.go:69-74)
Destroy ==
  /\ StreamCall
  /\ caller' = [caller EXCEPT !.n = @ + 1, !.pc = IF deviceSource THEN "destroy_check" ELSE "idle"]
  /\ UNCHANGED <<inside, findVars, deviceSource, sourceFrameSize, frameSize, sourceStop,
                 stopClosed, routine, streamResult>>

\* stream.go:63: the second read of s.deviceSource
DestroyCheck ==
  /\ CallerAt("destroy_check")
  /\ caller' = [caller EXCEPT !.pc = IF deviceSource THEN "destroy_stop" ELSE "destroy_store"]
  /\ UNCHANGED <<inside, findVars, deviceSource, sourceFrameSize, frameSize, sourceStop,
                 stopClosed, routine, streamResult>>

\* stream.go:64 and 92-94: Destroy calls StopSource, which checks the device
DestroyStop ==
  /\ CallerAt("destroy_stop")
  /\ caller' = IF ~deviceSource
                 THEN [caller EXCEPT !.pc = "destroy_close"]
                 ELSE [caller EXCEPT !.pc = "stop_capture", !.ret = "destroy_close"]
  /\ UNCHANGED <<inside, findVars, deviceSource, sourceFrameSize, frameSize, sourceStop,
                 stopClosed, routine, streamResult>>

\* stream.go:65: CaptureCloseDevice on s.deviceSource (a nil pointer panics)
DestroyClose ==
  /\ CallerAt("destroy_close")
  /\ caller' = [caller EXCEPT !.pc = IF deviceSource THEN "destroy_store" ELSE "panic"]
  /\ UNCHANGED <<inside, findVars, deviceSource, sourceFrameSize, frameSize, sourceStop,
                 stopClosed, routine, streamResult>>

\* stream.go:67-75: s.deviceSource = nil, the sink is torn down, Destroy returns
DestroyStore ==
  /\ CallerAt("destroy_store")
  /\ deviceSource' = FALSE
  /\ caller' = [caller EXCEPT !.pc = "idle"]
  /\ UNCHANGED <<inside, findVars, sourceFrameSize, frameSize, sourceStop, stopClosed,
                 routine, streamResult>>

\* stream.go:168-171: the goroutine starts, reads the configured frame size
\* and compares it with s.sourceFrameSize
SourceOpen(k) ==
  /\ RoutineAt(k, "start")
  /\ routine' = [routine EXCEPT ![k] =
       [@ EXCEPT !.size = frameSize,
                 !.pc = IF frameSize = sourceFrameSize THEN "begin" ELSE "close_device"]]
  /\ UNCHANGED <<inside, findVars, deviceSource, sourceFrameSize, frameSize, sourceStop,
                 stopClosed, caller, streamResult>>

\* stream.go:172: CaptureCloseDevice on s.deviceSource (a nil pointer panics)
SourceClose(k) ==
  /\ RoutineAt(k, "close_device")
  /\ routine' = [routine EXCEPT ![k].pc = IF deviceSource THEN "store_size" ELSE "panic"]
  /\ UNCHANGED <<inside, findVars, deviceSource, sourceFrameSize, frameSize, sourceStop,
                 stopClosed, caller, streamResult>>

\* stream.go:173: s.sourceFrameSize = frameSize
SourceSize(k) ==
  /\ RoutineAt(k, "store_size")
  /\ sourceFrameSize' = routine[k].size
  /\ routine' = [routine EXCEPT ![k].pc = "reopen"]
  /\ UNCHANGED <<inside, findVars, deviceSource, frameSize, sourceStop, stopClosed, caller,
                 streamResult>>

\* stream.go:174: s.deviceSource = openal.CaptureOpenDevice(...), which may
\* return nil
SourceReopen(k) ==
  /\ RoutineAt(k, "reopen")
  /\ deviceSource' \in BOOLEAN
  /\ routine' = [routine EXCEPT ![k].pc = "begin"]
  /\ UNCHANGED <<inside, findVars, sourceFrameSize, frameSize, sourceStop, stopClosed,
                 caller, streamResult>>

\* stream.go:177-183: the ticker, the copy of s.sourceStop, the outgoing channel
SourceBegin(k) ==
  /\ RoutineAt(k, "begin")
  /\ routine' = [routine EXCEPT ![k] = [@ EXCEPT !.pc = "select", !.stop = sourceStop]]
  /\ UNCHANGED <<inside, findVars, deviceSource, sourceFrameSize, frameSize, sourceStop,
                 stopClosed, caller, streamResult>>

\* stream.go:187-188: a receive from the closed stop channel; a nil channel
\* is never ready
SourceStopped(k) ==
  /\ RoutineAt(k, "select")
  /\ routine[k].stop \in stopClosed
  /\ routine' = [routine EXCEPT ![k].pc = "done"]
  /\ UNCHANGED <<inside, findVars, deviceSource, sourceFrameSize, frameSize, sourceStop,
                 stopClosed, caller, streamResult>>

\* stream.go:189-198: the ticker fires and CaptureSamples is called on
\* s.deviceSource (a nil pointer panics); a short buffer is dropped, a full
\* one converted
SourceTick(k) ==
  /\ RoutineAt(k, "select")
  /\ routine[k].ticks < MaxTicks
  /\ IF ~deviceSource
       THEN routine' = [routine EXCEPT ![k] = [@ EXCEPT !.pc = "panic", !.ticks = @ + 1]]
       ELSE \E len \in {0, routine[k].size * 2} :
              routine' = [routine EXCEPT ![k] =
                [@ EXCEPT !.ticks = @ + 1,
                          !.pc = IF len # routine[k].size * 2 THEN "select" ELSE "push"]]
  /\ UNCHANGED <<inside, findVars, deviceSource, sourceFrameSize, frameSize, sourceStop,
                 stopClosed, caller, streamResult>>

\* stream.go:199: the send on the unbuffered outgoing channel completes when
\* its consumer receives
SourcePush(k) ==
  /\ RoutineAt(k, "push")
  /\ routine' = [routine EXCEPT ![k] = [@ EXCEPT !.pc = "select", !.pushed = @ + 1]]
  /\ UNCHANGED <<inside, findVars, deviceSource, sourceFrameSize, frameSize, sourceStop,
                 stopClosed, caller, streamResult>>

StreamNext ==
  \/ StartSource
  \/ StartCapture
  \/ StartGo
  \/ StopSource
  \/ StopCapture
  \/ StopClose
  \/ StopStore
  \/ Destroy
  \/ DestroyCheck
  \/ DestroyStop
  \/ DestroyClose
  \/ DestroyStore
  \/ \E k \in Routines : SourceOpen(k)
  \/ \E k \in Routines : SourceClose(k)
  \/ \E k \in Routines : SourceSize(k)
  \/ \E k \in Routines : SourceReopen(k)
  \/ \E k \in Routines : SourceBegin(k)
  \/ \E k \in Routines : SourceStopped(k)
  \/ \E k \in Routines : SourceTick(k)
  \/ \E k \in Routines : SourcePush(k)

\* every goroutine that can run does, and a ready receive in the select is
\* taken. Nothing is assumed of the ticker, nor of the consumer of the
\* outgoing channel, which may itself be blocked in a network write.
StreamFairness ==
  /\ WF_vars(StartCapture) /\ WF_vars(StartGo)
  /\ WF_vars(StopCapture) /\ WF_vars(StopClose) /\ WF_vars(StopStore)
  /\ WF_vars(DestroyCheck) /\ WF_vars(DestroyStop)
  /\ WF_vars(DestroyClose) /\ WF_vars(DestroyStore)
  /\ \A k \in Routines : WF_vars(SourceOpen(k)) /\ WF_vars(SourceClose(k))
  /\ \A k \in Routines : WF_vars(SourceSize(k)) /\ WF_vars(SourceReopen(k))
  /\ \A k \in Routines : WF_vars(SourceBegin(k)) /\ SF_vars(SourceStopped(k))

StreamSpec == StreamInit /\ [][StreamNext]_vars /\ StreamFairness

(* ------------------------------- claims -------------------------------- *)
\* this step is the host goroutine h beginning a call of the method op
HostCall(h, op) ==
  /\ proc[h].pc = "idle"
  /\ proc'[h].n = proc[h].n + 1
  /\ proc'[h].op = op

\* the goroutines other than p take no step
OthersStill(p) == \A q \in Procs \ {p} : proc'[q] = proc[q]

\* positions in events of the Disconnect events about connection k
DisconnectEvents(k) ==
  {i \in 1..Len(events) : events[i].ev = "Disconnect" /\ events[i].conn = k}

\* every connection dialled so far has been closed
NoOpenSession == \A k \in 1..dialled : closed[k]

\* a call of Connect has not returned yet
Connecting == \E g \in Hosts : proc[g].op = "Connect" /\ proc[g].pc # "idle"

\* a call of close has been made and has not returned
Closing == \E p \in Procs : proc[p].event # "none"

\* C1: a Connect() called in state Connected or Synced returns ErrState and
\* changes nothing: no dial, no goroutine started, every field of the Client
\* and the network left as they were.
C1_ConnectRefused ==
  [][\A h \in Hosts :
       (HostCall(h, "Connect") /\ state \in {StateConnected, StateSynced}) =>
         /\ proc'[h].pc = "idle"
         /\ proc'[h].result = "ErrState"
         /\ OthersStill(h)
         /\ UNCHANGED <<client, net, events, closeMutex, sendMutex>>]_vars

\* a Connect() was refused in state Synced after the host had set a voice target
C1_Witness ==
  \E h \in Hosts :
    /\ proc[h].pc = "idle"
    /\ proc[h].op = "Connect"
    /\ proc[h].result = "ErrState"
    /\ state = StateSynced
    /\ audioTarget # 0
    /\ connection # 0

\* C2 (state part): the listener never gets two Disconnect events about one
\* connection, and has got exactly one once the connection has been closed and
\* that close has returned.
C2_OneEvent ==
  \A k \in Conns :
    /\ Cardinality(DisconnectEvents(k)) <= 1
    /\ SessionClosed(k) => Cardinality(DisconnectEvents(k)) = 1

\* C2 (step part): a close that runs once every session has been closed
\* returns ErrState and changes nothing.
C2_LaterCloseRefused ==
  \A p \in Procs :
    (proc[p].pc = "close_lock" /\ proc'[p] # proc[p] /\ NoOpenSession) =>
      /\ proc'[p].pc = IF p \in Hosts THEN "idle" ELSE "done"
      /\ p \in Hosts => proc'[p].result = "ErrState"
      /\ OthersStill(p)
      /\ UNCHANGED <<client, net, events, closeMutex, sendMutex>>

\* C2: for every successful Connect, however the host's Disconnect() calls and
\* the read goroutine's deferred close interleave, the listener receives
\* exactly one Disconnect event once the session has closed and never more
\* than one, and every close after the first returns ErrState without effect.
C2_SingleDisconnect == []C2_OneEvent /\ [][C2_LaterCloseRefused]_vars

\* two host goroutines called Disconnect() on one session and the read
\* goroutine ran its deferred close: one event, the later closes refused
C2_Witness ==
  /\ Cardinality(DisconnectEvents(1)) = 1
  /\ proc[Reader(1)].pc = "done"
  /\ \A h \in Hosts : proc[h].op = "Disconnect" /\ proc[h].pc = "idle"
  /\ \E h \in Hosts : proc[h].result = "ErrState"

\* C3 as claimed: once a session of the Client has been connected and
\* disconnected the Client is terminal: no Connect() called after that
\* succeeds, that is, none gets a connection.
C3_ConnectedOnce ==
  \A h \in Hosts : ~(proc[h].later /\ proc[h].pc = "connect_users")

\* the events appended by this step
NewEvents == {i \in 1..Len(events') : i > Len(events)}

\* C4 as claimed: once the Disconnect event about a connection has been
\* delivered, no further event about that connection is delivered and no
\* byte is written to it.
C4_QuietAfterDisconnect ==
  [][\A k \in Conns :
       DisconnectEvents(k) # {} =>
         /\ \A i \in NewEvents : events'[i].conn # k
         /\ wire'[k] = wire[k]]_vars

\* C5 as claimed: when a close that closed connection k returns, the read
\* goroutine and the keep-alive goroutine of k have exited (a read goroutine
\* running the close itself exits with it).
C5_FibersExited ==
  [][\A p \in Procs :
       (proc[p].pc = "close_notify" /\ proc'[p].pc \in {"idle", "done"}) =>
         /\ proc'[Reader(proc[p].closing)].pc = "done"
         /\ proc'[Pinger(proc[p].closing)].pc = "done"]_vars

\* C6 as claimed: a write that fails inside Send on an open connection makes
\* the sender take the close path instead of only returning the error.
C6_WriteFaultCloses ==
  [][faults' # faults =>
       \E p \in Procs : proc[p].pc # "close_lock" /\ proc'[p].pc = "close_lock"]_vars

\* positions in events of the Disconnect events
Disconnects == {i \in 1..Len(events) : events[i].ev = "Disconnect"}

\* client.go:171-194: the read goroutine started for connection k has
\* returned after an oversize header
OversizeDone(k) ==
  /\ proc[Reader(k)].pc = "done"
  /\ proc[Reader(k)].pLength > 10 * 1024 * 1024

\* the connections that have been closed
ClosedConns == {j \in Conns : closed[j]}

\* C7 (state part): once a read goroutine has returned after an oversize
\* header, a connection of the Client has been closed and the listener has
\* received a Disconnect event, never more events than connections closed; on
\* a Client that has dialled one connection, that connection is closed and
\* the listener has received exactly one Disconnect event.
C7_OneEvent ==
  \A k \in Conns :
    OversizeDone(k) =>
      /\ Disconnects # {}
      /\ Cardinality(Disconnects) <= Cardinality(ClosedConns)
      /\ dialled = 1 => closed[k] /\ Cardinality(Disconnects) = 1

\* C7 (event type): when no host goroutine has called Disconnect(), the
\* Disconnect events after an oversize header are of type Error.
C7_ErrorType ==
  \A k \in Conns :
    (/\ OversizeDone(k)
     /\ \A h \in Hosts : proc[h].n <= 1 /\ proc[h].op # "Disconnect") =>
      \A i \in Disconnects : events[i].type = "Error"

\* C7 (step part): a header longer than 10 MiB makes the read goroutine
\* return through its deferred close with no payload read and no handler
\* called, any other header (10 MiB exactly included) has its payload read and
\* is dispatched; the close run by the read goroutine delivers one event, a
\* Disconnect of type Error.
C7_Step ==
  \A k \in Conns :
    LET r == proc[Reader(k)]
        r2 == proc'[Reader(k)] IN
    /\ (r.pc = "read" /\ r2.n = r.n + 1) =>
         IF r2.pLength > 10 * 1024 * 1024
           THEN r2.pc = "close_lock" /\ r2.event = "Error" /\ r2.pType = 0 /\ events' = events
           ELSE r2.pc = "dispatch" /\ r2.pType # 0 /\ r2.pLength > 0
    /\ r.pc = "dispatch" => r.pLength <= 10 * 1024 * 1024
    /\ (r.pc = "close_notify" /\ r2.pc = "done") =>
         /\ Len(events') = Len(events) + 1
         /\ events'[Len(events')].ev = "Disconnect"
         /\ events'[Len(events')].type = "Error"

\* C7: a received header whose length exceeds 10 MiB is fatal: no payload is
\* read, no handler is dispatched, and the session closes with exactly one
\* Disconnect event, of type Error (the host not having called Disconnect()
\* itself); a length of exactly 10 MiB is accepted and dispatched. The count of
\* exactly one event is stated for a Client that has dialled one connection.
C7_OversizeFatal == []C7_OneEvent /\ []C7_ErrorType /\ [][C7_Step]_vars

\* the server sent an oversize header on the only connection: the read
\* goroutine has returned, the connection is closed and the listener has one
\* Disconnect event, of type Error
C7_Witness ==
  /\ OversizeDone(1)
  /\ dialled = 1
  /\ closed[1]
  /\ Cardinality(Disconnects) = 1
  /\ \A i \in Disconnects : events[i].type = "Error"
  /\ \A h \in Hosts : proc[h].op # "Disconnect"

\* every header chunk on the wire is followed at once by the body of the same
\* frame (or is the last chunk written), every body follows its header
WellFramed(w) ==
  \A i \in 1..Len(w) :
    /\ w[i][2] = "header" => (i = Len(w) \/ w[i + 1] = <<w[i][1], "body">>)
    /\ w[i][2] = "body" => (i > 1 /\ w[i - 1] = <<w[i][1], "header">>)

IsBody(chunk) == chunk[2] = "body"

\* the whole frames on the wire, in order
WholeFrames(w) ==
  LET bodies == SelectSeq(w, IsBody) IN [i \in 1..Len(bodies) |-> bodies[i][1]]

\* C8: the frames of concurrent Sends never interleave on the wire, and the
\* whole frames on the wire are in the order in which their Sends completed.
C8_FramesSerialized ==
  \A k \in Conns :
    /\ WellFramed(wire[k])
    /\ WholeFrames(wire[k]) = sent[k]

\* Connect, the keep-alive goroutine and another host goroutine have each
\* written a whole frame on one connection
C8_Witness ==
  \E i, j, l \in 1..Len(sent[1]) :
    /\ sent[1][i].kind = "Authenticate"
    /\ sent[1][j].by = Pinger(1)
    /\ sent[1][l].by = Host(2)

\* this step is p's Send reading c.connection
SendReads(p) == proc[p].pc = "send_lock" /\ proc'[p] # proc[p]

\* C9 as claimed: a Send that finds c.connection nil (before any Connect,
\* after the session has closed, or after a concurrent close has set it to
\* nil) writes nothing, changes nothing and returns ErrState to its caller.
C9_SendRefused ==
  [][\A p \in Procs :
       (SendReads(p) /\ connection = 0) =>
         /\ proc'[p].pc # "send_body"
         /\ proc[p].ret = "host_send" =>
              proc'[p].pc = "idle" /\ proc'[p].result = "ErrState"
         /\ OthersStill(p)
         /\ UNCHANGED <<client, net, events, closeMutex, sendMutex, crashed>>]_vars

\* C10 as claimed: the state changes only from Disconnected to Connected,
\* from Connected to Synced, and from Connected or Synced to Disconnected.
C10_Transitions ==
  [][state' # state =>
       \/ state = StateDisconnected /\ state' = StateConnected
       \/ state = StateConnected /\ state' = StateSynced
       \/ state \in {StateConnected, StateSynced} /\ state' = StateDisconnected]_vars

\* the read goroutine of connection k has left its loop on a failed read
\* (the read deadline expired) and is about to run its deferred close
ReadFailed(k) ==
  /\ proc[Reader(k)].pc = "close_lock"
  /\ proc[Reader(k)].conn = k
  /\ proc[Reader(k)].pLength = 0

\* the listener has the Disconnect event about connection k (of type Error
\* when no host goroutine has called Disconnect()) and the keep-alive
\* goroutine of k has returned
ClosedWithError(k) ==
  /\ proc[Pinger(k)].pc = "done"
  /\ \E i \in DisconnectEvents(k) :
       (\A h \in Hosts : proc[h].n <= 1 /\ proc[h].op # "Disconnect") => events[i].type = "Error"

\* C11 as claimed: once the read of connection k has failed on its deadline,
\* the listener eventually gets the Disconnect event about k and the
\* keep-alive goroutine of k exits.
C11_DeadlineCloses ==
  \A k \in Conns : (ReadFailed(k) /\ ~crashed) ~> (ClosedWithError(k) \/ crashed)

\* C12: a packet whose type id has no handler is dropped silently: its
\* payload is read like any other, and the dispatch step runs no handler,
\* delivers no event, changes no field of the Client and takes the read
\* goroutine back to reading the next packet.
C12_UnknownDropped ==
  [][\A k \in Conns :
       LET r == proc[Reader(k)]
           r2 == proc'[Reader(k)] IN
       /\ (r.pc = "read" /\ r2.n = r.n + 1 /\ r2.pLength <= maximumPacketSize
             /\ r2.pType \notin handlers) =>
            r2.pc = "dispatch" /\ r2.capData >= r2.pLength
       /\ (r.pc = "dispatch" /\ r.pType \notin handlers /\ r2 # r) =>
            /\ r2.pc = "read"
            /\ r2.conn = r.conn
            /\ OthersStill(Reader(k))
            /\ UNCHANGED <<client, net, events, closeMutex, sendMutex, crashed>>]_vars

\* the read goroutine is reading again after the one packet it has received,
\* which left no event: the packet had an unknown type id
C12_Witness ==
  /\ proc[Reader(1)].pc = "read"
  /\ proc[Reader(1)].n = 1
  /\ events = <<>>
  /\ state = StateConnected
  /\ connection = 1

\* C13 as claimed: Conn() returns a connection only in state Connected or
\* Synced, and whenever the state is Disconnected with no Connect and no close
\* in progress, c.connection is nil and users, channels, context actions and
\* self are empty.
C13_HandleValid ==
  /\ Conn # NilConn => state \in {StateConnected, StateSynced}
  /\ (state = StateDisconnected /\ ~Connecting /\ ~Closing) =>
       /\ connection = 0
       /\ users.ids = {} /\ channels.ids = {} /\ contextActions.ids = {}
       /\ self = 0

\* the channels whose path of names from c is names
RECURSIVE Resolve(_, _)
Resolve(c, names) ==
  IF names = <<>> THEN {c}
  ELSE UNION {Resolve(child, Tail(names)) :
                child \in {d \in children(c) : chName[d] = names[1]}}

\* C14 as claimed: Find returns the receiver for the empty path, otherwise a
\* channel whose path from the receiver is the arguments, and nil only when
\* no channel has that path, sibling channels of one name included.
C14_FindComplete ==
  findDone =>
    /\ findNames = <<>> => findResult = findReceiver
    /\ findResult # NilChannel => findResult \in Resolve(findReceiver, findNames)
    /\ findResult = NilChannel => Resolve(findReceiver, findNames) = {}

\* this step is p's close delivering its Disconnect event to the listener
Notifies(p) == proc[p].pc = "close_notify" /\ proc'[p].pc # "close_notify"

\* C15 as claimed: close signals the keep-alive goroutine, closes the
\* connection, sets the state and drops the world before it delivers the
\* event, so when OnDisconnect runs State() is Disconnected, Conn() is nil,
\* users, channels, context actions and self are empty, and the keep-alive
\* goroutine has received its stop signal.
C15_CloseOrder ==
  [][\A p \in Procs :
       Notifies(p) =>
         /\ closed[proc[p].closing]
         /\ proc[Pinger(proc[p].closing)].pc = "done"
         /\ state = StateDisconnected
         /\ Conn = NilConn
         /\ users.ids = {} /\ channels.ids = {} /\ contextActions.ids = {}
         /\ self = 0]_vars

\* C16 as claimed: on every connection the first frame written is Connect's
\* Version and the second its Authenticate, no Ping or other frame before or
\* between them, and nothing is written before the state is Connected.
C16_HandshakeFirst ==
  \A k \in Conns :
    /\ wire[k] # <<>> => wire[k][1][1].kind = "Version"
    /\ Len(WholeFrames(wire[k])) >= 2 => WholeFrames(wire[k])[2].kind = "Authenticate"
    /\ wire[k] # <<>> => k <= dialled

\* C17 as claimed: under fair scheduling every call of close (from
\* Disconnect(), from the read goroutine's defer, or from the listener's
\* OnDisconnect) returns.
C17_CloseReturns ==
  \A p \in Procs :
    (proc[p].pc = "close_lock" /\ ~crashed) ~> (proc[p].pc \in {"idle", "done"} \/ crashed)

\* C18 as claimed: the deferred close of a read goroutine only closes the
\* connection that goroutine was reading from, only stops that connection's
\* keep-alive goroutine and only delivers a Disconnect event about it.
C18_OwnConnection ==
  [][\A k \in Conns :
       LET r == proc[Reader(k)] IN
       /\ (r.pc = "close_end" /\ proc'[Reader(k)] # r) =>
            \A j \in Conns : proc'[Pinger(j)] # proc[Pinger(j)] => j = r.conn
       /\ (r.pc = "close_conn" /\ proc'[Reader(k)] # r) =>
            \A j \in Conns : (closed'[j] /\ ~closed[j]) => j = r.conn
       /\ (r.pc = "close_notify" /\ proc'[Reader(k)] # r) =>
            \A i \in NewEvents : events'[i].conn = r.conn]_vars

\* C19 as claimed: a Connect() that fails on the encoder or on the dial, no
\* other goroutine running, leaves the Client as it was when it was called:
\* state Disconnected, connection nil, no goroutine started, the encoder nil,
\* the audio target and the audio sequence unchanged.
C19_FailedConnectNoEffect ==
  [][\A h \in Hosts :
       (/\ proc[h].pc \in {"connect_encoder", "connect_dial"}
        /\ proc'[h].pc = "idle"
        /\ proc'[h].result \in {"ErrEncoder", "ErrDial"}
        /\ dialled = 0
        /\ \A g \in Hosts \ {h} : proc[g].n = 0) =>
         /\ state' = StateDisconnected
         /\ connection' = 0
         /\ audioEncoder' = FALSE
         /\ \A q \in Readers \cup Pingers : proc'[q].pc = "off"
         /\ audioTarget' = proc[h].target
         /\ audioSequence' = proc[h].sequence]_vars

\* C20 as claimed: once the StopSource() matching the k-th StartSource() has
\* returned nil (it closed the k-th stop channel), the k-th source goroutine
\* eventually exits (or the program has ended on a panic), so that only the
\* goroutine of a start not yet stopped stays live.
C20_SourceExits ==
  \A k \in Routines : (k \in stopClosed) ~> (routine[k].pc = "done" \/ ~StreamRunning)

====
